---- MODULE Spec2Model ----
(***************************************************************************)
(* Model of BlockMatcher.matchBlocks (src/data/scripts/utils.ts) and of    *)
(* the T-pose pattern built by the playerPlaceBlock handler.               *)
(*                                                                         *)
(* A JavaScript number is modelled as a sign and a magnitude, so that -0   *)
(* (produced by negating a 0 offset) is distinct from 0 until              *)
(* JSON.stringify renders both as 0.                                       *)
(***************************************************************************)
EXTENDS Integers, Sequences, FiniteSets, TLC

VARIABLES pattern, triggerLocation, shouldDestroyBlocks, world, doTileDrops,
          pc, possibleCombinations, ci, bi, di, result,
          lookups, removals, flagWrites, world0, flag0

vars == <<pattern, triggerLocation, shouldDestroyBlocks, world, doTileDrops,
          pc, possibleCombinations, ci, bi, di, result,
          lookups, removals, flagWrites, world0, flag0>>

\* ---- bounds of the model ----
\* the loaded part of the world is the cube -GridR..GridR in each axis
GridR == 2
\* how many of the first variants may be laid over the world as a second copy
MaxOverlay == 3

\* ---- JavaScript numbers ----
JSNum(v) == [neg |-> v < 0, abs |-> IF v < 0 THEN -v ELSE v]
Negate(n) == [neg |-> ~n.neg, abs |-> n.abs]
Val(n) == IF n.neg THEN -n.abs ELSE n.abs

Block(x, y, z, t) == [offset |-> <<JSNum(x), JSNum(y), JSNum(z)>>, blockType |-> t]
Map(F(_), s) == [i \in 1..Len(s) |-> F(s[i])]

\* ---- block types ----
Diamond == "minecraft:diamond_block"
Iron == "minecraft:iron_block"
Gold == "minecraft:gold_block"
Stone == "minecraft:stone"
Air == "minecraft:air"
Undefined == "undefined"

\* a slip in the handler's pattern: one arm two cells away from the body
tPosePattern_typo ==
  << Block(0, -1, 0, Iron), Block(0, -2, 0, Iron),
     Block(0, -1, 2, Iron), Block(0, -1, -1, Iron) >>

\* ---- the pattern of the placed-block handler ----
tPosePattern ==
  << Block(0, -1, 0, Iron), Block(0, -2, 0, Iron),
     Block(0, -1, 1, Iron), Block(0, -1, -1, Iron) >>

\* ---- generateCombinations ----
RotY90(b) == [offset |-> <<b.offset[3], b.offset[2], Negate(b.offset[1])>>, blockType |-> b.blockType]
RotY180(b) == [offset |-> <<Negate(b.offset[1]), b.offset[2], Negate(b.offset[3])>>, blockType |-> b.blockType]
RotY270(b) == [offset |-> <<Negate(b.offset[3]), b.offset[2], b.offset[1]>>, blockType |-> b.blockType]
RotX90(b) == [offset |-> <<b.offset[1], Negate(b.offset[3]), b.offset[2]>>, blockType |-> b.blockType]
RotX180(b) == [offset |-> <<b.offset[1], Negate(b.offset[2]), Negate(b.offset[3])>>, blockType |-> b.blockType]
RotX270(b) == [offset |-> <<b.offset[1], b.offset[3], Negate(b.offset[2])>>, blockType |-> b.blockType]
RotZ90(b) == [offset |-> <<Negate(b.offset[2]), b.offset[1], b.offset[3]>>, blockType |-> b.blockType]
RotZ180(b) == [offset |-> <<Negate(b.offset[1]), Negate(b.offset[2]), b.offset[3]>>, blockType |-> b.blockType]
RotZ270(b) == [offset |-> <<b.offset[2], Negate(b.offset[1]), b.offset[3]>>, blockType |-> b.blockType]

Rotations(p) ==
  << p,
     Map(RotY90, p), Map(RotY180, p), Map(RotY270, p),
     Map(RotX90, p), Map(RotX180, p), Map(RotX270, p),
     Map(RotZ90, p), Map(RotZ180, p), Map(RotZ270, p) >>

ReflectX(b) == [offset |-> <<Negate(b.offset[1]), b.offset[2], b.offset[3]>>, blockType |-> b.blockType]
ReflectY(b) == [offset |-> <<b.offset[1], Negate(b.offset[2]), Negate(b.offset[3])>>, blockType |-> b.blockType]
ReflectZ(b) == [offset |-> <<b.offset[1], b.offset[2], Negate(b.offset[3])>>, blockType |-> b.blockType]

ReflectionsOf(rotation) ==
  << rotation, Map(ReflectX, rotation), Map(ReflectY, rotation), Map(ReflectZ, rotation) >>

\* rotations.flatMap(rotation => [...four reflections...])
Reflections(rots) ==
  [k \in 1..(4 * Len(rots)) |-> ReflectionsOf(rots[((k - 1) \div 4) + 1])[((k - 1) % 4) + 1]]

\* JSON.stringify of a variant: every number is rendered by its value, so
\* -0 and 0 give the same text; keys are always offset, blockType.
JSONstringify(rotation) ==
  [i \in 1..Len(rotation) |->
     <<Val(rotation[i].offset[1]), Val(rotation[i].offset[2]),
       Val(rotation[i].offset[3]), rotation[i].blockType>>]

JSONparse(s) ==
  [i \in 1..Len(s) |-> Block(s[i][1], s[i][2], s[i][3], s[i][4])]

\* a deduplication that puts each new variant in front of the ones found before
RECURSIVE UniqueFrom_prepend(_, _, _)
UniqueFrom_prepend(strs, k, acc) ==
  IF k > Len(strs) THEN acc
  ELSE IF \E j \in 1..Len(acc) : acc[j] = strs[k]
       THEN UniqueFrom_prepend(strs, k + 1, acc)
       ELSE UniqueFrom_prepend(strs, k + 1, <<strs[k]>> \o acc)

\* new Set(strings) followed by Array.from: insertion order, first occurrence kept
RECURSIVE UniqueFrom(_, _, _)
UniqueFrom(strs, k, acc) ==
  IF k > Len(strs) THEN acc
  ELSE IF \E j \in 1..Len(acc) : acc[j] = strs[k]
       THEN UniqueFrom(strs, k + 1, acc)
       ELSE UniqueFrom(strs, k + 1, Append(acc, strs[k]))

\* no deduplication: every generated variant is kept
uniquePatterns_noDedup(refl) == Map(JSONstringify, refl)

uniquePatterns(refl) == UniqueFrom(Map(JSONstringify, refl), 1, <<>>)

generateCombinations(p) == Map(JSONparse, uniquePatterns(Reflections(Rotations(p))))

\* ---- the world ----
Coords == (-GridR)..GridR
Grid == Coords \X Coords \X Coords

\* The world holds the type of every loaded cell that is not air: a function
\* from those cells to their block type.
\* this.dimension.getBlock(location)?.typeId
getBlockTypeId(w, loc) ==
  IF loc \in DOMAIN w THEN w[loc]
  ELSE IF loc \in Grid THEN Air
  ELSE Undefined

\* new Vector3(baseLocation.x + offsetX, baseLocation.y + offsetY, baseLocation.z + offsetZ)
checkLocation(base, b) ==
  <<base[1] + Val(b.offset[1]), base[2] + Val(b.offset[2]), base[3] + Val(b.offset[3])>>

\* setblock x y z air destroy
setblockAir(w, loc) == [c \in (DOMAIN w) \ {loc} |-> w[c]]

\* ---- inputs ----
Patterns ==
  { tPosePattern,
    <<>>,
    << Block(0, -1, 0, Iron) >>,
    << Block(1, 0, 0, Gold), Block(0, -1, 0, Iron) >>,
    << Block(0, -1, 0, Iron), Block(1, -1, 0, Gold) >>,
    << Block(1, 2, 0, Iron) >> }

\* one anchor in the middle of the loaded cube, one on its edge
Anchors == { <<0, 0, 0>>, <<GridR, 0, 1 - GridR>> }

EmptyWorld(base) == [c \in {base} |-> Diamond]

\* the world w with a block of type t at the loaded cell loc
WithBlock(w, loc, t) ==
  IF loc \in Grid
  THEN [c \in (DOMAIN w) \cup {loc} |-> IF c = loc THEN t ELSE w[c]]
  ELSE w

RECURSIVE PlaceFrom(_, _, _, _)
PlaceFrom(w, base, v, i) ==
  IF i > Len(v) THEN w
  ELSE LET loc == checkLocation(base, v[i])
       IN PlaceFrom(WithBlock(w, loc, v[i].blockType), base, v, i + 1)

\* a world holding variant v2, then variant v1 over it, then (s > 0) a
\* block of another type at the place of v1's s-th block
BuildWorld(base, v1, v2, s) ==
  LET w == PlaceFrom(PlaceFrom(EmptyWorld(base), base, v2, 1), base, v1, 1)
  IN IF s = 0 THEN w
     ELSE WithBlock(w, checkLocation(base, v1[s]), Stone)

\* the worlds built from the variants of pattern p around base
WorldsFor(p, base) ==
  LET V == generateCombinations(p)
      n == Len(V)
      m == IF n < MaxOverlay THEN n ELSE MaxOverlay
  IN { BuildWorld(base, V[k[1]], V[k[2]], k[3]) :
         k \in (1..n) \X (1..m) \X (0..Len(p)) }

\* the world is independent of the pattern that is looked for
Worlds(base) == UNION { WorldsFor(q, base) : q \in Patterns }

Init ==
  /\ triggerLocation \in Anchors
  /\ world \in Worlds(triggerLocation)
  /\ pattern \in Patterns
  /\ shouldDestroyBlocks \in BOOLEAN
  /\ doTileDrops \in BOOLEAN
  /\ world0 = world
  /\ flag0 = doTileDrops
  /\ pc = "start"
  /\ possibleCombinations = <<>>
  /\ ci = 1
  /\ bi = 1
  /\ di = 0
  /\ result = [matched |-> FALSE]
  /\ lookups = <<>>
  /\ removals = <<>>
  /\ flagWrites = 0

\* ---- matchBlocks, statement by statement ----

\* const possibleCombinations = generateCombinations(blocksToCheck)
GenerateCombinations ==
  /\ pc = "start"
  /\ possibleCombinations' = generateCombinations(pattern)
  /\ ci' = 1
  /\ bi' = 1
  /\ pc' = "check"
  /\ UNCHANGED <<pattern, triggerLocation, shouldDestroyBlocks, world, doTileDrops,
                 di, result, lookups, removals, flagWrites, world0, flag0>>

\* a checkCombination that goes on to the next block after a mismatch
CheckBlock_continue ==
  /\ pc = "check"
  /\ ci <= Len(possibleCombinations)
  /\ bi <= Len(possibleCombinations[ci])
  /\ LET block == possibleCombinations[ci][bi]
         loc == checkLocation(triggerLocation, block)
     IN lookups' = Append(lookups, loc)
  /\ ci' = ci
  /\ bi' = bi + 1
  /\ UNCHANGED <<pattern, triggerLocation, shouldDestroyBlocks, world, doTileDrops,
                 pc, possibleCombinations, di, result, removals,
                 flagWrites, world0, flag0>>

\* one iteration of the loop of checkCombination: one block lookup
CheckBlock ==
  /\ pc = "check"
  /\ ci <= Len(possibleCombinations)
  /\ bi <= Len(possibleCombinations[ci])
  /\ LET block == possibleCombinations[ci][bi]
         loc == checkLocation(triggerLocation, block)
         blockType == getBlockTypeId(world, loc)
     IN /\ lookups' = Append(lookups, loc)
        /\ IF blockType # block.blockType
           THEN ci' = ci + 1 /\ bi' = 1
           ELSE ci' = ci /\ bi' = bi + 1
  /\ UNCHANGED <<pattern, triggerLocation, shouldDestroyBlocks, world, doTileDrops,
                 pc, possibleCombinations, di, result, removals,
                 flagWrites, world0, flag0>>

\* a result that carries the pattern as given instead of the variant that matched
Matched_base == [matched |-> TRUE, combination |-> pattern,
                 center |-> triggerLocation]

Matched == [matched |-> TRUE, combination |-> possibleCombinations[ci],
            center |-> triggerLocation]

\* checkCombination returned true and destroyBlocks is off: return the match
ReturnMatched ==
  /\ pc = "check"
  /\ ci <= Len(possibleCombinations)
  /\ bi > Len(possibleCombinations[ci])
  /\ ~shouldDestroyBlocks
  /\ result' = Matched
  /\ pc' = "done"
  /\ UNCHANGED <<pattern, triggerLocation, shouldDestroyBlocks, world, doTileDrops,
                 possibleCombinations, ci, bi, di, lookups, removals,
                 flagWrites, world0, flag0>>

\* a cleanup that does not look at options.destroyBlocks
EnterDestroyBlocks_always ==
  /\ pc = "check"
  /\ ci <= Len(possibleCombinations)
  /\ bi > Len(possibleCombinations[ci])
  /\ di' = 0
  /\ pc' = "dropsOff"
  /\ UNCHANGED <<pattern, triggerLocation, shouldDestroyBlocks, world, doTileDrops,
                 possibleCombinations, ci, bi, result, lookups, removals,
                 flagWrites, world0, flag0>>

\* checkCombination returned true and destroyBlocks is on: enter destroyBlocks
EnterDestroyBlocks ==
  /\ pc = "check"
  /\ ci <= Len(possibleCombinations)
  /\ bi > Len(possibleCombinations[ci])
  /\ shouldDestroyBlocks
  /\ di' = 0
  /\ pc' = "dropsOff"
  /\ UNCHANGED <<pattern, triggerLocation, shouldDestroyBlocks, world, doTileDrops,
                 possibleCombinations, ci, bi, result, lookups, removals,
                 flagWrites, world0, flag0>>

\* a cleanup that removes the cells of the pattern as given, not of the matched variant
destroyLocation_pattern(base, combination, d) ==
  IF d = 0 THEN base ELSE checkLocation(base, pattern[d])

\* the location of the di-th removal: the base location, then each block
destroyLocation(base, combination, d) ==
  IF d = 0 THEN base ELSE checkLocation(base, combination[d])

\* world.gameRules.doTileDrops = false
DropsOff ==
  /\ pc = "dropsOff"
  /\ doTileDrops' = FALSE
  /\ flagWrites' = flagWrites + 1
  /\ pc' = "setblock"
  /\ UNCHANGED <<pattern, triggerLocation, shouldDestroyBlocks, world,
                 possibleCombinations, ci, bi, di, result, lookups,
                 removals, world0, flag0>>

\* this.dimension.runCommand(`setblock ... air destroy`)
RunSetblock ==
  /\ pc = "setblock"
  /\ LET loc == destroyLocation(triggerLocation, possibleCombinations[ci], di)
     IN /\ world' = setblockAir(world, loc)
        /\ removals' = Append(removals, loc)
  /\ pc' = "dropsOn"
  /\ UNCHANGED <<pattern, triggerLocation, shouldDestroyBlocks, doTileDrops,
                 possibleCombinations, ci, bi, di, result, lookups,
                 flagWrites, world0, flag0>>

\* a cleanup that re-enables the drops once, after the whole batch
DropsOn_batched ==
  /\ pc = "dropsOn"
  /\ IF di < Len(possibleCombinations[ci])
     THEN /\ di' = di + 1
          /\ pc' = "dropsOff"
          /\ UNCHANGED <<result, doTileDrops, flagWrites>>
     ELSE /\ di' = di
          /\ pc' = "done"
          /\ doTileDrops' = TRUE
          /\ flagWrites' = flagWrites + 1
          /\ result' = Matched
  /\ UNCHANGED <<pattern, triggerLocation, shouldDestroyBlocks, world,
                 possibleCombinations, ci, bi, lookups, removals,
                 world0, flag0>>

\* a cleanup that puts the flag back to the value it had at the call
DropsOn_restore ==
  /\ pc = "dropsOn"
  /\ doTileDrops' = flag0
  /\ flagWrites' = flagWrites + 1
  /\ IF di < Len(possibleCombinations[ci])
     THEN /\ di' = di + 1
          /\ pc' = "dropsOff"
          /\ UNCHANGED result
     ELSE /\ di' = di
          /\ pc' = "done"
          /\ result' = Matched
  /\ UNCHANGED <<pattern, triggerLocation, shouldDestroyBlocks, world,
                 possibleCombinations, ci, bi, lookups, removals,
                 world0, flag0>>

\* world.gameRules.doTileDrops = true, then the next block or the return
DropsOn ==
  /\ pc = "dropsOn"
  /\ doTileDrops' = TRUE
  /\ flagWrites' = flagWrites + 1
  /\ IF di < Len(possibleCombinations[ci])
     THEN /\ di' = di + 1
          /\ pc' = "dropsOff"
          /\ UNCHANGED result
     ELSE /\ di' = di
          /\ pc' = "done"
          /\ result' = Matched
  /\ UNCHANGED <<pattern, triggerLocation, shouldDestroyBlocks, world,
                 possibleCombinations, ci, bi, lookups, removals,
                 world0, flag0>>

\* the loop over the combinations ended: return { matched: false }
ReturnNoMatch ==
  /\ pc = "check"
  /\ ci > Len(possibleCombinations)
  /\ result' = [matched |-> FALSE]
  /\ pc' = "done"
  /\ UNCHANGED <<pattern, triggerLocation, shouldDestroyBlocks, world, doTileDrops,
                 possibleCombinations, ci, bi, di, lookups, removals,
                 flagWrites, world0, flag0>>

Next ==
  \/ GenerateCombinations
  \/ CheckBlock
  \/ ReturnMatched
  \/ EnterDestroyBlocks
  \/ DropsOff
  \/ RunSetblock
  \/ DropsOn
  \/ ReturnNoMatch

Spec == Init /\ [][Next]_vars

\* ---- the T-pose scenario: the handler's pattern in a world given cell by cell ----
tPoseCells(a) ==
  << <<a[1], a[2] - 1, a[3]>>, <<a[1], a[2] - 2, a[3]>>,
     <<a[1], a[2] - 1, a[3] + 1>>, <<a[1], a[2] - 1, a[3] - 1>> >>

\* iron at the four cells below the anchor; when s > 0 the s-th cell holds t instead
tPoseWorld(a, s, t) ==
  LET cells == tPoseCells(a)
      kept == { i \in 1..4 : i # s \/ t # Air }
  IN [c \in {a} \cup { cells[i] : i \in kept } |->
        IF c = a THEN Diamond
        ELSE IF s > 0 /\ c = cells[s] THEN t
        ELSE Iron]

InitTPose ==
  /\ triggerLocation \in Anchors
  /\ \E s \in 0..4, t \in {Stone, Gold, Air} : world = tPoseWorld(triggerLocation, s, t)
  /\ pattern = tPosePattern
  /\ shouldDestroyBlocks \in BOOLEAN
  /\ doTileDrops \in BOOLEAN
  /\ world0 = world
  /\ flag0 = doTileDrops
  /\ pc = "start"
  /\ possibleCombinations = <<>>
  /\ ci = 1
  /\ bi = 1
  /\ di = 0
  /\ result = [matched |-> FALSE]
  /\ lookups = <<>>
  /\ removals = <<>>
  /\ flagWrites = 0

SpecTPose == InitTPose /\ [][Next]_vars

\* ======================= properties =======================
Done == pc = "done"

Range(s) == { s[i] : i \in 1..Len(s) }

\* the cell of block b of a variant placed at base
CellOf(base, b) ==
  <<base[1] + Val(b.offset[1]), base[2] + Val(b.offset[2]), base[3] + Val(b.offset[3])>>

\* what a lookup of cell c read in the world as it was when matchBlocks was called
Observed(c) ==
  IF c \in DOMAIN world0 THEN world0[c] ELSE IF c \in Grid THEN Air ELSE Undefined

\* variant v is fully satisfied at the anchor
Satisfied(v) ==
  \A i \in 1..Len(v) : Observed(CellOf(triggerLocation, v[i])) = v[i].blockType

SatisfiedIndexes == { k \in 1..Len(possibleCombinations) : Satisfied(possibleCombinations[k]) }

FirstOf(S) == CHOOSE k \in S : \A j \in S : k <= j

\* C1: matchBlocks returns matched=true exactly when some variant of the search
\* order is fully satisfied at the anchor (an absent block is a mismatch); the
\* returned combination is the first such variant and the center is the anchor.
C1_MatchedIffFirstSatisfied ==
  Done =>
    /\ result.matched = (SatisfiedIndexes # {})
    /\ SatisfiedIndexes # {} =>
         /\ result.combination = possibleCombinations[FirstOf(SatisfiedIndexes)]
         /\ result.center = triggerLocation

C1_Witness ==
  /\ Done
  /\ result.matched
  /\ Cardinality(SatisfiedIndexes) >= 2
  /\ FirstOf(SatisfiedIndexes) > 1
  /\ \E c \in Range(lookups) : c \notin Grid

\* the cells a cleanup of the returned match has to remove, in order
ExpectedRemovals ==
  <<result.center>> \o
  [i \in 1..Len(result.combination) |-> CellOf(result.center, result.combination[i])]

\* C2: after a match with destroyBlocks=true the anchor and every cell of the
\* matched variant read as air; the removals are the anchor and then the
\* variant's cells in the variant's order, and no other cell has changed.
C2_MatchedBlocksRemoved ==
  (Done /\ result.matched /\ shouldDestroyBlocks) =>
    /\ removals = ExpectedRemovals
    /\ \A c \in Range(ExpectedRemovals) : getBlockTypeId(world, c) = Air
    /\ \A c \in Grid : c \notin Range(ExpectedRemovals) =>
                          getBlockTypeId(world, c) = Observed(c)

C2_Witness ==
  /\ Done
  /\ result.matched
  /\ shouldDestroyBlocks
  /\ Len(removals) >= 3
  /\ result.combination # pattern
  /\ \E c \in DOMAIN world : c # triggerLocation

\* C3: in a call started with the drop flag enabled, the flag is disabled
\* exactly while one removal is in progress (written false right before the
\* removal, true right after it), it is enabled between two removals and after
\* the last one, and it has been written 2*(n+1) times when cleanup of a match
\* with n offsets returns.
C3_DropFlagPerRemoval ==
  flag0 =>
    /\ (~doTileDrops) <=> (pc \in {"setblock", "dropsOn"})
    /\ pc = "setblock" => flagWrites = 2 * Len(removals) + 1
    /\ pc = "dropsOn" => flagWrites = 2 * Len(removals) - 1
    /\ pc \in {"dropsOff", "done"} => flagWrites = 2 * Len(removals)
    /\ (Done /\ result.matched /\ shouldDestroyBlocks) =>
         flagWrites = 2 * (Len(result.combination) + 1)

C3_Witness ==
  /\ flag0
  /\ pc = "dropsOff"
  /\ Len(removals) >= 2
  /\ doTileDrops

\* C4: with destroyBlocks=false the world and the drop flag are never written
\* and no removal is issued, whether or not the pattern matches.
C4_NoDestroyNoChange ==
  ~shouldDestroyBlocks =>
    /\ world = world0
    /\ doTileDrops = flag0
    /\ removals = <<>>
    /\ flagWrites = 0

C4_Witness ==
  /\ Done
  /\ ~shouldDestroyBlocks
  /\ result.matched
  /\ Len(result.combination) >= 2

\* the number of lookups variant v needs: up to its first mismatch, or all
LookupCount(v) ==
  IF Satisfied(v) THEN Len(v)
  ELSE FirstOf({ i \in 1..Len(v) :
                   Observed(CellOf(triggerLocation, v[i])) # v[i].blockType })

LookupsFor(v) == [i \in 1..LookupCount(v) |-> CellOf(triggerLocation, v[i])]

\* the last variant that is tested: the first satisfied one, or the last one
LastTested ==
  IF SatisfiedIndexes = {} THEN Len(possibleCombinations) ELSE FirstOf(SatisfiedIndexes)

RECURSIVE ExpectedLookups(_)
ExpectedLookups(k) ==
  IF k = 0 THEN <<>>
  ELSE ExpectedLookups(k - 1) \o LookupsFor(possibleCombinations[k])

\* C5: the lookups are made variant by variant in search order, within a
\* variant in offset order up to and including its first mismatching offset;
\* nothing is looked up after the first satisfied variant, and one call makes
\* at most 40 * offsets.length lookups.
C5_ShortCircuit ==
  /\ Len(lookups) <= 40 * Len(pattern)
  /\ pc # "start" =>
       LET expected == ExpectedLookups(LastTested)
       IN /\ Len(lookups) <= Len(expected)
          /\ lookups = SubSeq(expected, 1, Len(lookups))
          /\ pc # "check" => lookups = expected

C5_Witness ==
  /\ Done
  /\ result.matched
  /\ ci >= 3
  /\ Len(lookups) > (ci - 1) + Len(pattern)
  /\ Len(lookups) < ci * Len(pattern)

\* C6: for the T-pose pattern, in a world whose iron blocks are exactly the
\* four cells (0,-1,0), (0,-2,0), (0,-1,1), (0,-1,-1) below the anchor,
\* matchBlocks returns matched with the anchor as center; when one of the four
\* cells holds another type instead, it returns matched=false.
C6_TPose ==
  (Done /\ pattern = tPosePattern) =>
    LET iron == { c \in DOMAIN world0 : world0[c] = Iron }
        T == Range(tPoseCells(triggerLocation))
    IN /\ iron = T => (result.matched /\ result.center = triggerLocation)
       /\ (\E c \in T : iron = T \ {c}) => ~result.matched

C6_Witness ==
  /\ Done
  /\ pattern = tPosePattern
  /\ \E c \in Range(tPoseCells(triggerLocation)) :
        /\ { d \in DOMAIN world0 : world0[d] = Iron } = Range(tPoseCells(triggerLocation)) \ {c}
        /\ Observed(c) = Gold
  /\ ~result.matched
  /\ Len(lookups) >= Len(possibleCombinations)

\* the offsets of block b differ from those of block a by the negation of axis k only
NegatesOnly(a, b, k) ==
  /\ b.blockType = a.blockType
  /\ \A j \in 1..3 :
       Val(b.offset[j]) = IF j = k THEN -Val(a.offset[j]) ELSE Val(a.offset[j])

\* C7: each of the 10 rotated offset lists is followed by exactly four
\* reflections: itself, and its mirrors across X, Y and Z, each of which
\* negates exactly one coordinate (x, y, z respectively) of every offset and
\* keeps the other two coordinates and the block type.
C7_ReflectionsNegateOneAxis ==
  (pc = "check" /\ lookups = <<>>) =>
    LET rots == Rotations(pattern)
        raw == Reflections(rots)
    IN /\ Len(rots) = 10
       /\ Len(raw) = 40
       /\ \A r \in 1..10 :
            /\ raw[4 * (r - 1) + 1] = rots[r]
            /\ \A k \in 1..3 : \A i \in 1..Len(pattern) :
                 NegatesOnly(rots[r][i], raw[4 * (r - 1) + 1 + k][i], k)

\* two variants with the same offsets and block types in the same order
SameStructure(u, v) ==
  /\ Len(u) = Len(v)
  /\ \A i \in 1..Len(u) :
       /\ u[i].blockType = v[i].blockType
       /\ \A j \in 1..3 : Val(u[i].offset[j]) = Val(v[i].offset[j])

\* the first place of variant v in the 40 generated variants (0: nowhere)
FirstOccurrence(raw, v) ==
  LET S == { k \in 1..Len(raw) : SameStructure(raw[k], v) }
  IN IF S = {} THEN 0 ELSE FirstOf(S)

\* generateCombinations has just returned
Generated == pc = "check" /\ lookups = <<>>

C9_EmptyPattern ==
  (pattern = <<>> /\ pc # "start") =>
    /\ possibleCombinations = << <<>> >>
    /\ lookups = <<>>
    /\ Done =>
         /\ result = [matched |-> TRUE, combination |-> <<>>, center |-> triggerLocation]
         /\ removals = IF shouldDestroyBlocks THEN <<triggerLocation>> ELSE <<>>
         /\ \A c \in Grid : c # triggerLocation =>
                               getBlockTypeId(world, c) = Observed(c)

C9_Witness ==
  /\ Done
  /\ pattern = <<>>
  /\ shouldDestroyBlocks
  /\ result.matched
  /\ Cardinality(DOMAIN world0) >= 3
  /\ getBlockTypeId(world, triggerLocation) = Air

\* C10: a successful match with destroyBlocks=true leaves the drop flag enabled
\* whatever it was at the call; a call that returns matched=false leaves the
\* flag and every block as they were.
C10_FlagSetNotRestored ==
  Done =>
    /\ (result.matched /\ shouldDestroyBlocks) => doTileDrops
    /\ ~result.matched => (doTileDrops = flag0 /\ world = world0)

C10_Witness ==
  /\ Done
  /\ result.matched
  /\ shouldDestroyBlocks
  /\ ~flag0
  /\ doTileDrops

====
